---------------------------- MODULE Spec2Model ----------------------------
(*
  Address resolution of the codewalk server (src/unnamed/part_000):
  addrToByteRange, addrNumber, addrRegexp, lineToByte and byteToLine.

  A buffer is a sequence of byte values (0..255).  An address is a sequence
  of one-character strings.  Offsets are 0-based as in the source; At and
  Slice translate Go's data[i] and s[a:b].

  A function result is a record [lo, hi, err].  err = "nil" is a normal
  return without error, err = "panic" stands for a Go run-time panic
  (index or slice bounds out of range): the call does not return at all.
*)
EXTENDS Integers, Sequences, FiniteSets

\* ------------------------------------------------------------------ bounds
\* longest buffer
MaxLen == 3
\* longest address, counted in tokens (Pieces)
MaxToks == 3
\* largest count handed to addrNumber directly
MaxCount == 3
\* longest buffer served by codewalkFileprint
MaxPrintLen == 6

\* --------------------------------------------------------------- Go basics
At(s, i) == s[i + 1]
Slice(s, a, b) == SubSeq(s, a + 1, b)

NUL == "NUL"

ErrSyntax == "invalid address syntax"
ErrRange == "address out of range"
ErrReverse == "reverse search not implemented"
ErrNoMatch == "no match"
ErrPattern == "regexp: error parsing regexp"

Ok(lo, hi) == [lo |-> lo, hi |-> hi, err |-> "nil"]
Fail(e) == [lo |-> 0, hi |-> 0, err |-> e]
Panic == [lo |-> 0, hi |-> 0, err |-> "panic"]

\* data[i] == '\n'
IsNL(b) == b = 10

\* data[pos]&0xc0 == 0x80
IsCont(b) == (b \div 64) = 2

\* size returned by utf8.DecodeRune(data[pos:]) for pos < len(data):
\* the length of a well-formed 1-, 2- or 3-byte encoding, 1 for anything else
DecodeRuneSize(data, pos) ==
  LET b == At(data, pos)
      n == Len(data)
  IN  IF b >= 194 /\ b <= 223 /\ pos + 1 < n /\ IsCont(At(data, pos + 1)) THEN 2
      ELSE IF b >= 225 /\ b <= 236 /\ pos + 2 < n
              /\ IsCont(At(data, pos + 1)) /\ IsCont(At(data, pos + 2)) THEN 3
      ELSE 1

\* -------------------------------------------------------------- addrNumber
\* fwdRunes stepping one byte per count instead of one rune
RECURSIVE fwdRunesByBytes(_, _, _)
fwdRunesByBytes(data, pos, n) ==
  IF n > 0 /\ pos < Len(data)
  THEN fwdRunesByBytes(data, pos + 1, n - 1)
  ELSE IF n = 0 THEN Ok(pos, pos) ELSE Fail(ErrRange)

\* for ; n > 0 && pos < len(data); n-- { _, size := DecodeRune; pos += size }
RECURSIVE fwdRunes(_, _, _)
fwdRunes(data, pos, n) ==
  IF n > 0 /\ pos < Len(data)
  THEN fwdRunes(data, pos + DecodeRuneSize(data, pos), n - 1)
  ELSE IF n = 0 THEN Ok(pos, pos) ELSE Fail(ErrRange)

\* for hi < len(data) && data[hi-1] != '\n' { hi++ }
RECURSIVE fwdSnap(_, _)
fwdSnap(data, hi) ==
  IF hi < Len(data) /\ ~IsNL(At(data, hi - 1)) THEN fwdSnap(data, hi + 1) ELSE hi

\* fwdLines without `case 1: lo = hi + 1`: lo stays where the stepping began
RECURSIVE fwdLinesKeepLo(_, _, _, _)
fwdLinesKeepLo(data, lo, hi, n) ==
  IF hi < Len(data)
  THEN IF ~IsNL(At(data, hi)) THEN fwdLinesKeepLo(data, lo, hi + 1, n)
       ELSE IF n - 1 = 0 THEN Ok(lo, hi + 1)
       ELSE fwdLinesKeepLo(data, lo, hi + 1, n - 1)
  ELSE Fail(ErrRange)

\* for ; hi < len(data); hi++ { ... switch n--; n { case 1: lo = hi+1; case 0: return } }
RECURSIVE fwdLines(_, _, _, _)
fwdLines(data, lo, hi, n) ==
  IF hi < Len(data)
  THEN IF ~IsNL(At(data, hi)) THEN fwdLines(data, lo, hi + 1, n)
       ELSE IF n - 1 = 1 THEN fwdLines(data, hi + 1, hi + 1, n - 1)
       ELSE IF n - 1 = 0 THEN Ok(lo, hi + 1)
       ELSE fwdLines(data, lo, hi + 1, n - 1)
  ELSE Fail(ErrRange)

\* case '+' (and case 0 after its fallthrough)
addrForward(data, hi, n, charOffset) ==
  IF charOffset THEN fwdRunes(data, hi, n)
  ELSE LET h == IF hi > 0 THEN fwdSnap(data, hi) ELSE hi
       IN  IF n = 0 THEN Ok(h, h) ELSE fwdLines(data, h, h, n)

\* for ; pos > 0 && n > 0; pos-- { if data[pos]&0xc0 != 0x80 { n-- } }
RECURSIVE backRunes(_, _, _)
backRunes(data, pos, n) ==
  IF pos > 0 /\ n > 0
  THEN IF pos >= Len(data) THEN Panic
       ELSE backRunes(data, pos - 1, IF ~IsCont(At(data, pos)) THEN n - 1 ELSE n)
  ELSE IF n = 0 THEN Ok(pos, pos) ELSE Fail(ErrRange)

\* for lo > 0 && data[lo-1] != '\n' { lo-- }
RECURSIVE backSnap(_, _)
backSnap(data, lo) ==
  IF lo > 0 /\ ~IsNL(At(data, lo - 1)) THEN backSnap(data, lo - 1) ELSE lo

\* for ; lo >= 0; lo-- { ... switch n--; n { case 1: hi = lo; case 0: return } }
RECURSIVE backLines(_, _, _, _)
backLines(data, lo, hi, n) ==
  IF lo >= 0
  THEN IF lo > 0 /\ ~IsNL(At(data, lo - 1)) THEN backLines(data, lo - 1, hi, n)
       ELSE IF n - 1 = 1 THEN backLines(data, lo - 1, lo, n - 1)
       ELSE IF n - 1 = 0 THEN Ok(lo, hi)
       ELSE backLines(data, lo - 1, hi, n - 1)
  ELSE Fail(ErrRange)

\* case '-'
addrBackward(data, lo, n, charOffset) ==
  IF charOffset THEN backRunes(data, lo, n)
  ELSE LET l == backSnap(data, lo)
       IN  IF n = 0 THEN Ok(l, l) ELSE backLines(data, l, l, n)

addrNumber(data, lo, hi, dir, n, charOffset) ==
  CASE dir = NUL -> addrForward(data, 0, n, charOffset)
    [] dir = "+" -> addrForward(data, hi, n, charOffset)
    [] dir = "-" -> addrBackward(data, lo, n, charOffset)
    [] OTHER -> Fail(ErrRange)

\* -------------------------------------------------------------- addrRegexp
\* byte value of a pattern character
Ord(c) ==
  CASE c = "a" -> 97 [] c = "b" -> 98 [] c = "c" -> 99 [] c = "X" -> 88
    [] c = "/" -> 47 [] c = "+" -> 43 [] c = "\\" -> 92 [] OTHER -> 0

\* the literal a pattern of plain and backslash-escaped characters stands for
RECURSIVE unescape(_)
unescape(p) ==
  IF p = <<>> THEN <<>>
  ELSE IF Head(p) = "\\" THEN <<Ord(p[2])>> \o unescape(SubSeq(p, 3, Len(p)))
  ELSE <<Ord(Head(p))>> \o unescape(Tail(p))

\* a backslash is escaping the character at 0-based index i of p
RECURSIVE escapedAt(_, _)
escapedAt(p, i) ==
  IF i = 0 THEN FALSE ELSE At(p, i - 1) = "\\" /\ ~escapedAt(p, i - 1)

\* regexp.Compile on the patterns that arise here: characters matching
\* themselves and backslash-escaped punctuation.  It rejects a pattern that
\* starts with the repetition operator (missing argument) and one that ends
\* in an unescaped backslash (trailing backslash).
Compile(pattern) ==
  IF pattern # <<>> /\ Head(pattern) = "+" THEN [ok |-> FALSE, lit |-> <<>>]
  ELSE IF pattern # <<>> /\ pattern[Len(pattern)] = "\\"
          /\ ~escapedAt(pattern, Len(pattern) - 1) THEN [ok |-> FALSE, lit |-> <<>>]
  ELSE [ok |-> TRUE, lit |-> unescape(pattern)]

\* lit occurs in text at 0-based offset p
matchAt(lit, text, p) ==
  /\ p + Len(lit) <= Len(text)
  /\ \A k \in 1..Len(lit) : text[p + k] = lit[k]

\* re.FindIndex(text): offsets of the leftmost match, <<>> for nil
RECURSIVE findFrom(_, _, _)
findFrom(lit, text, p) ==
  IF p + Len(lit) > Len(text) THEN <<>>
  ELSE IF matchAt(lit, text, p) THEN <<p, p + Len(lit)>>
  ELSE findFrom(lit, text, p + 1)

FindIndex(lit, text) == findFrom(lit, text, 0)

\* addrRegexp without the wraparound search
addrRegexpNoWrap(data, lo, hi, dir, pattern) ==
  LET re == Compile(pattern)
  IN  IF ~re.ok THEN Fail(ErrPattern)
      ELSE IF dir = "-" THEN Fail(ErrReverse)
      ELSE LET m1 == FindIndex(re.lit, Slice(data, hi, Len(data)))
           IN  IF Len(m1) = 0 THEN Fail(ErrNoMatch) ELSE Ok(m1[1] + hi, m1[2] + hi)

\* addrRegexp without the direction check: a backward search runs forward
addrRegexpAnyDir(data, lo, hi, dir, pattern) ==
  LET re == Compile(pattern)
  IN  IF ~re.ok THEN Fail(ErrPattern)
      ELSE LET m1 == FindIndex(re.lit, Slice(data, hi, Len(data)))
               m == IF Len(m1) > 0 THEN <<m1[1] + hi, m1[2] + hi>>
                    ELSE IF hi > 0 THEN FindIndex(re.lit, data)
                    ELSE m1
           IN  IF Len(m) = 0 THEN Fail(ErrNoMatch) ELSE Ok(m[1], m[2])

addrRegexp(data, lo, hi, dir, pattern) ==
  LET re == Compile(pattern)
  IN  IF ~re.ok THEN Fail(ErrPattern)
      ELSE IF dir = "-" THEN Fail(ErrReverse)
      ELSE LET m1 == FindIndex(re.lit, Slice(data, hi, Len(data)))
               m == IF Len(m1) > 0 THEN <<m1[1] + hi, m1[2] + hi>>
                    ELSE IF hi > 0 THEN FindIndex(re.lit, data)
                    ELSE m1
           IN  IF Len(m) = 0 THEN Fail(ErrNoMatch) ELSE Ok(m[1], m[2])

\* ------------------------------------------------- lineToByte, byteToLine
\* lineScan returning the offset of the newline itself instead of the one after it
RECURSIVE lineScanAtNewline(_, _, _)
lineScanAtNewline(data, i, n) ==
  IF i >= Len(data) THEN Len(data)
  ELSE IF IsNL(At(data, i))
       THEN IF n - 1 = 0 THEN i ELSE lineScanAtNewline(data, i + 1, n - 1)
       ELSE lineScanAtNewline(data, i + 1, n)

\* for i, c := range data { if c == '\n' { if n--; n == 0 { return i + 1 } } }
RECURSIVE lineScan(_, _, _)
lineScan(data, i, n) ==
  IF i >= Len(data) THEN Len(data)
  ELSE IF IsNL(At(data, i))
       THEN IF n - 1 = 0 THEN i + 1 ELSE lineScan(data, i + 1, n - 1)
       ELSE lineScan(data, i + 1, n)

lineToByte(data, n) == IF n <= 1 THEN 0 ELSE lineScan(data, 0, n - 1)

\* for j, c := range data { if j == i { return l }; if c == '\n' { l++ } }
RECURSIVE byteScan(_, _, _, _)
byteScan(data, i, j, l) ==
  IF j >= Len(data) THEN l
  ELSE IF j = i THEN l
  ELSE byteScan(data, i, j + 1, IF IsNL(At(data, j)) THEN l + 1 ELSE l)

byteToLine(data, i) == byteScan(data, i, 0, 1)

\* --------------------------------------------------------- addrToByteRange
Digits == <<"0", "1", "2", "3", "4", "5", "6", "7", "8", "9">>
IsDigit(c) == \E k \in 1..Len(Digits) : Digits[k] = c
DigitVal(c) == (CHOOSE k \in 1..Len(Digits) : Digits[k] = c) - 1

\* for i = 1; i < len(addr); i++ { if addr[i] < '0' || addr[i] > '9' { break } }
RECURSIVE digitRun(_, _)
digitRun(addr, i) ==
  IF i < Len(addr) /\ IsDigit(At(addr, i)) THEN digitRun(addr, i + 1) ELSE i

\* strconv.Atoi on a run of digits (a run within MaxToks digits never overflows)
RECURSIVE Atoi(_)
Atoi(s) ==
  IF s = <<>> THEN 0 ELSE 10 * Atoi(SubSeq(s, 1, Len(s) - 1)) + DigitVal(s[Len(s)])

\* Regexp: for i = 1; i < len(addr); i++ { switch addr[i] { case '\\': i++
\*                                          case '/': j = i + 1; break Regexp } }
RECURSIVE regexpScan(_, _)
regexpScan(addr, i) ==
  IF i < Len(addr)
  THEN IF At(addr, i) = "\\" THEN regexpScan(addr, i + 2)
       ELSE IF At(addr, i) = "/" THEN [i |-> i, j |-> i + 1]
       ELSE regexpScan(addr, i + 1)
  ELSE [i |-> i, j |-> i]

\* the code after the loop: the pending direction is applied with count 1
addrFinal(st, data) ==
  LET r == IF st.err = "nil" /\ st.dir # NUL
           THEN addrNumber(data, st.lo, st.hi, st.dir, 1, st.charOffset)
           ELSE [lo |-> st.lo, hi |-> st.hi, err |-> st.err]
  IN  IF r.err # "nil" THEN [lo |-> 0, hi |-> 0, err |-> r.err] ELSE r

RECURSIVE addrToByteRange(_, _, _)
RECURSIVE addrLoop(_, _)
\* one iteration of `for addr != "" && err == nil`, then the remaining ones
addrLoop(st, data) ==
  IF st.addr = <<>> \/ st.err # "nil" THEN addrFinal(st, data)
  ELSE
    LET addr == st.addr
        c == Head(addr)
    IN
    CASE c = "," ->
           IF Len(addr) = 1
           THEN [lo |-> st.lo, hi |-> Len(data), err |-> st.err]
           ELSE LET r == addrToByteRange(Tail(addr), st.hi, data)
                IN  [lo |-> st.lo, hi |-> r.hi, err |-> r.err]
      [] c = "+" \/ c = "-" ->
           LET r == IF st.prevc = "+" \/ st.prevc = "-"
                    THEN addrNumber(data, st.lo, st.hi, st.prevc, 1, st.charOffset)
                    ELSE [lo |-> st.lo, hi |-> st.hi, err |-> st.err]
           IN  addrLoop([st EXCEPT !.lo = r.lo, !.hi = r.hi, !.err = r.err,
                                   !.dir = c, !.prevc = c, !.addr = Tail(addr)], data)
      [] c = "$" ->
           addrLoop([st EXCEPT !.lo = Len(data), !.hi = Len(data),
                               !.dir = IF Len(addr) > 1 THEN "+" ELSE st.dir,
                               !.prevc = c, !.addr = Tail(addr)], data)
      [] c = "#" ->
           addrLoop([st EXCEPT !.charOffset = TRUE, !.prevc = c,
                               !.addr = Tail(addr)], data)
      [] IsDigit(c) ->
           LET i == digitRun(addr, 1)
               n == Atoi(Slice(addr, 0, i))
               r == addrNumber(data, st.lo, st.hi, st.dir, n, st.charOffset)
           IN  addrLoop([st EXCEPT !.lo = r.lo, !.hi = r.hi, !.err = r.err,
                                   !.dir = NUL, !.charOffset = FALSE, !.prevc = c,
                                   !.addr = Slice(addr, i, Len(addr))], data)
      [] c = "/" ->
           LET sc == regexpScan(addr, 1)
           IN  IF sc.i > Len(addr) THEN Panic
               ELSE LET pattern == Slice(addr, 1, sc.i)
                        r == addrRegexp(data, st.lo, st.hi, st.dir, pattern)
                    IN  addrLoop([st EXCEPT !.lo = r.lo, !.hi = r.hi, !.err = r.err,
                                            !.prevc = c,
                                            !.addr = Slice(addr, sc.j, Len(addr))], data)
      [] OTHER ->
           addrLoop([st EXCEPT !.err = ErrSyntax, !.prevc = c,
                               !.addr = Tail(addr)], data)

addrToByteRange(addr, start, data) ==
  addrLoop([addr |-> addr, lo |-> start, hi |-> start, dir |-> NUL,
            prevc |-> NUL, charOffset |-> FALSE, err |-> "nil"], data)

\* ------------------------------------------------------- codewalkFileprint
\* n := 4
ContextLines == 4

\* for ; mark > 0 && n > 0; mark-- { if data[mark-1] == '\n' { if n--; n == 0 { break } } }
RECURSIVE markScan(_, _, _)
markScan(data, mark, n) ==
  IF mark > 0 /\ n > 0
  THEN IF IsNL(At(data, mark - 1))
       THEN IF n - 1 = 0 THEN mark ELSE markScan(data, mark - 1, n - 1)
       ELSE markScan(data, mark - 1, n)
  ELSE mark

\* the file-print view for the form values lo and hi (line numbers): the byte
\* offsets of the highlighted lines, the mark, and the four pieces of the
\* file written around the mark and the highlight
codewalkFileprint(data, loForm, hiForm) ==
  LET hiLine == IF hiForm < loForm THEN loForm ELSE hiForm
      lo == lineToByte(data, loForm)
      hi == lineToByte(data, hiLine + 1)
      mark == markScan(data, lo, ContextLines)
  IN  [lo |-> lo, hi |-> hi, mark |-> mark,
       out |-> <<Slice(data, 0, mark), Slice(data, mark, lo),
                 IF lo < hi THEN Slice(data, lo, hi) ELSE <<>>,
                 Slice(data, hi, Len(data))>>]

\* ------------------------------------------------------------------ inputs
\* bytes of the buffers: '\n', 'a', the two bytes of a 2-byte character
\* (0xC3 0xA9) and the lead byte of a 3-byte one (0xE2 0xA9 0xA9)
Bytes == {10, 97, 169, 195, 226}
\* bytes of the buffers addresses are resolved in
LineBytes == {10, 97}

SeqsUpTo(S, k) == UNION {[1..m -> S] : m \in 0..k}
Buffers == SeqsUpTo(Bytes, MaxLen)
LineBuffers == SeqsUpTo(LineBytes, MaxLen)
PrintBuffers == SeqsUpTo(LineBytes, MaxPrintLen)

\* address tokens; a token of LastPieces ends the evaluation, whatever follows
Pieces ==
  {<<",">>, <<"+">>, <<"-">>, <<"$">>, <<"#">>, <<"0">>, <<"1">>, <<"2">>,
   <<"/", "a", "/">>}
LastPieces == {<<"/", "a", "\\">>, <<"x">>}

RECURSIVE AddrsUpTo(_)
AddrsUpTo(k) ==
  IF k = 0 THEN {<<>>}
  ELSE LET S == AddrsUpTo(k - 1) IN S \cup {a \o p : a \in S, p \in Pieces}

Addrs ==
  AddrsUpTo(MaxToks) \cup {a \o p : a \in AddrsUpTo(MaxToks - 1), p \in LastPieces}

Patterns == {<<>>, <<"a">>, <<"a", "a">>, <<"+">>, <<"a", "\\">>, <<"\\", "/">>}
Dirs == {NUL, "+", "-"}

\* ----------------------------------------------------------- state machine
VARIABLES data, fn, args, res
vars == <<data, fn, args, res>>

\* a file has been read, no function has been applied yet
Init == data \in Buffers /\ fn = "none" /\ args = <<>> /\ res = <<>>
InitAddr == data \in LineBuffers /\ fn = "none" /\ args = <<>> /\ res = <<>>

\* loadCodewalk resolves the address of a step from offset 0
Resolve ==
  /\ fn = "none"
  /\ \E addr \in Addrs :
       /\ args' = [addr |-> addr, start |-> 0]
       /\ res' = addrToByteRange(addr, 0, data)
  /\ fn' = "addrToByteRange"
  /\ UNCHANGED data

Number ==
  /\ fn = "none"
  /\ \E hi \in 0..Len(data), dir \in Dirs, n \in 0..MaxCount, charOffset \in BOOLEAN :
     \E lo \in 0..hi :
       /\ args' = [lo |-> lo, hi |-> hi, dir |-> dir, n |-> n, charOffset |-> charOffset]
       /\ res' = addrNumber(data, lo, hi, dir, n, charOffset)
  /\ fn' = "addrNumber"
  /\ UNCHANGED data

Search ==
  /\ fn = "none"
  /\ \E hi \in 0..Len(data), dir \in Dirs, pattern \in Patterns :
     \E lo \in 0..hi :
       /\ args' = [lo |-> lo, hi |-> hi, dir |-> dir, pattern |-> pattern]
       /\ res' = addrRegexp(data, lo, hi, dir, pattern)
  /\ fn' = "addrRegexp"
  /\ UNCHANGED data

ToByte ==
  /\ fn = "none"
  /\ \E n \in 0..(Len(data) + 2) :
       /\ args' = [n |-> n]
       /\ res' = lineToByte(data, n)
  /\ fn' = "lineToByte"
  /\ UNCHANGED data

ToLine ==
  /\ fn = "none"
  /\ \E i \in 0..Len(data) :
       /\ args' = [i |-> i]
       /\ res' = byteToLine(data, i)
  /\ fn' = "byteToLine"
  /\ UNCHANGED data

Next == Number \/ Search \/ ToByte \/ ToLine
Spec == Init /\ [][Next]_vars

NextAddr == Resolve
SpecAddr == InitAddr /\ [][NextAddr]_vars

\* a request for the file-print view of a file that was read
InitPrint == data \in PrintBuffers /\ fn = "none" /\ args = <<>> /\ res = <<>>

Fileprint ==
  /\ fn = "none"
  /\ \E lo \in 0..(Len(data) + 2), hi \in 0..(Len(data) + 2) :
       /\ args' = [lo |-> lo, hi |-> hi]
       /\ res' = codewalkFileprint(data, lo, hi)
  /\ fn' = "codewalkFileprint"
  /\ UNCHANGED data

NextPrint == Fileprint
SpecPrint == InitPrint /\ [][NextPrint]_vars

\* ------------------------------------------------------ notions of the claims
Min(S) == CHOOSE x \in S : \A y \in S : x <= y

\* number of newline bytes of a buffer
NumNL(d) == Cardinality({i \in 1..Len(d) : IsNL(d[i])})
\* every line of the buffer ends in a newline
Terminated(d) == d = <<>> \/ IsNL(d[Len(d)])
\* the address is one run of digits
IsNumber(addr) == addr # <<>> /\ \A k \in 1..Len(addr) : IsDigit(addr[k])
\* 1-based index of the first comma of an address, 0 when there is none
FirstComma(addr) ==
  IF \E k \in 1..Len(addr) : addr[k] = ","
  THEN Min({k \in 1..Len(addr) : addr[k] = ","}) ELSE 0

\* lit is found in d at offset p
Occurs(lit, d, p) == p + Len(lit) <= Len(d) /\ Slice(d, p, p + Len(lit)) = lit

\* offsets at which a rune starts when the buffer is decoded from offset 0,
\* and the end of the buffer
RECURSIVE boundariesFrom(_, _)
boundariesFrom(d, p) ==
  IF p < Len(d) THEN {p} \cup boundariesFrom(d, p + DecodeRuneSize(d, p)) ELSE {p}
RuneStarts(d) == boundariesFrom(d, 0)

\* "line1\nline2\nline3\n"
Line123 ==
  <<108, 105, 110, 101, 49, 10, 108, 105, 110, 101, 50, 10, 108, 105, 110, 101, 51, 10>>
\* "abcXabc"
AbcXabc == <<97, 98, 99, 88, 97, 98, 99>>

\* ------------------------------------------------------------------ claims

\* C1: addrToByteRange returns a range or an error value for every buffer and
\* every address; it never aborts with an out-of-bounds index or slice.
C1_NeverAborts == fn = "addrToByteRange" => res.err # "panic"

\* C2: every successful evaluation from (0,0) returns 0 <= lo <= hi <= len(buffer).
C2_RangeOrdered ==
  (fn = "addrToByteRange" /\ args.start = 0 /\ res.err = "nil")
    => (0 <= res.lo /\ res.lo <= res.hi /\ res.hi <= Len(data))

\* C3: the result of `L,R` is (left.lo, right.hi): left is the result of L
\* evaluated alone as a complete address, right that of R evaluated from
\* left.hi; an empty R gives (left.lo, len(buffer)).
C3_CommaComposes ==
  (fn = "addrToByteRange" /\ FirstComma(args.addr) > 0) =>
    LET k == FirstComma(args.addr)
        L == SubSeq(args.addr, 1, k - 1)
        R == SubSeq(args.addr, k + 1, Len(args.addr))
        left == addrToByteRange(L, args.start, data)
        right == addrToByteRange(R, left.hi, data)
    IN  left.err = "nil" =>
          IF R = <<>> THEN res = Ok(left.lo, Len(data))
          ELSE right.err = "nil" => res = Ok(left.lo, right.hi)

C4_Examples ==
  /\ addrToByteRange(<<"2">>, 0, Line123) = Ok(6, 12)
  /\ addrToByteRange(<<"1", ",", "2">>, 0, Line123) = Ok(0, 12)
  /\ addrToByteRange(<<"0">>, 0, Line123) = Ok(0, 0)

\* the range of line N, for the address that is (or ends in) the number N
C4_LineOf(d, N) == Ok(lineToByte(d, N), lineToByte(d, N + 1))

\* C4: a bare line number is absolute: in a buffer whose lines are all
\* newline-terminated the address N, 1 <= N <= number of lines, resolves to
\* [lineToByte(N), lineToByte(N+1)) whatever the position it is evaluated
\* from (alone from offset 0, or after a comma from the hi of the left side),
\* and 0 resolves to (0,0).
C4_BareLineNumber ==
  /\ fn = "addrToByteRange" => C4_Examples
  /\ (fn = "addrToByteRange" /\ Terminated(data)) =>
       LET k == FirstComma(args.addr)
           R == SubSeq(args.addr, k + 1, Len(args.addr))
           N == Atoi(R)
       IN  /\ (k = 0 /\ IsNumber(R) /\ N = 0) => res = Ok(0, 0)
           /\ (k = 0 /\ IsNumber(R) /\ 1 <= N /\ N <= NumNL(data))
                => res = C4_LineOf(data, N)
           /\ (k > 0 /\ IsNumber(R) /\ N = 0 /\ res.err = "nil") => res.hi = 0
           /\ (k > 0 /\ IsNumber(R) /\ 1 <= N /\ N <= NumNL(data) /\ res.err = "nil")
                => res.hi = C4_LineOf(data, N).hi

\* line 2 of "a\n\n" is [2,3); `$,1` evaluates 1 from the end of the buffer
C4_Witness ==
  \/ (fn = "addrToByteRange" /\ data = <<97, 10, 10>> /\ args.addr = <<"2">>
        /\ res = Ok(2, 3))
  \/ (fn = "addrToByteRange" /\ data = <<97, 10, 10>> /\ args.addr = <<"$", ",", "1">>
        /\ res.err = "nil" /\ res.hi = 2)

\* C5: the address k on a buffer of k-1 newline-terminated lines followed by
\* a non-empty unterminated line resolves to [start of line k, len(buffer)).
C5_UnterminatedLastLine ==
  (fn = "addrToByteRange" /\ data # <<>> /\ ~Terminated(data)
     /\ IsNumber(args.addr) /\ Atoi(args.addr) = NumNL(data) + 1)
    => res = Ok(lineToByte(data, NumNL(data) + 1), Len(data))

C6_Examples ==
  /\ addrRegexp(AbcXabc, 4, 4, "+", <<"a", "b", "c">>) = Ok(4, 7)
  /\ addrRegexp(AbcXabc, 7, 7, "+", <<"a", "b", "c">>) = Ok(0, 3)

\* C6: a forward search from hi returns the offsets of the first match lying
\* in buffer[hi:] when there is one; otherwise, when hi > 0, those of the
\* first match in the whole buffer; otherwise it signals NoMatch.
C6_ForwardSearch ==
  /\ fn = "addrRegexp" => C6_Examples
  /\ (fn = "addrRegexp" /\ args.dir # "-" /\ Compile(args.pattern).ok) =>
       LET lit == Compile(args.pattern).lit
           after == {p \in args.hi..Len(data) : Occurs(lit, data, p)}
           all == {p \in 0..Len(data) : Occurs(lit, data, p)}
       IN  IF after # {} THEN res = Ok(Min(after), Min(after) + Len(lit))
           ELSE IF args.hi > 0 /\ all # {} THEN res = Ok(Min(all), Min(all) + Len(lit))
           ELSE res = Fail(ErrNoMatch)

\* "a\na" searched for a from its end: the match is found by wrapping around
C6_Witness ==
  fn = "addrRegexp" /\ data = <<97, 10, 97>> /\ args.hi = 3 /\ args.dir = "+"
    /\ args.pattern = <<"a">> /\ res = Ok(0, 1)

\* C7 as claimed: a backward search signals UnsupportedDirection for every
\* buffer, start position and pattern, a pattern that does not compile included.
C7_BackwardAlwaysUnsupported ==
  (fn = "addrRegexp" /\ args.dir = "-") => res = Fail(ErrReverse)

\* C7 as amended: a backward search signals UnsupportedDirection for every
\* buffer, start position and pattern that compiles, found in the buffer or
\* not; a pattern that does not compile signals InvalidPattern.
C7_BackwardUnsupported ==
  (fn = "addrRegexp" /\ args.dir = "-") =>
    res = Fail(IF Compile(args.pattern).ok THEN ErrReverse ELSE ErrPattern)

\* a backward search for a in a buffer without one
C7_Witness ==
  fn = "addrRegexp" /\ args.dir = "-" /\ data = <<10>> /\ args.pattern = <<"a">>
    /\ res = Fail(ErrReverse)

\* C8: byteToLine(buffer, lineToByte(buffer, L)) = L for every L with
\* 1 <= L <= number of newline bytes plus one.
C8_LineByteInverse ==
  (fn = "lineToByte" /\ 1 <= args.n /\ args.n <= NumNL(data) + 1)
    => byteToLine(data, res) = args.n

C8_Witness ==
  fn = "lineToByte" /\ data = <<97, 10, 97>> /\ args.n = 2 /\ res = 2

\* C9: `+#n` from a position hi on a rune boundary returns (p,p), p the
\* offset just after the n-th whole rune following hi, and signals
\* AddressOutOfRange exactly when fewer than n runes remain after hi.
C9_ForwardRunes ==
  (fn = "addrNumber" /\ args.dir = "+" /\ args.charOffset
     /\ args.hi \in RuneStarts(data)) =>
    LET B == RuneStarts(data)
        ahead == {b \in B : b > args.hi}
    IN  IF Cardinality(ahead) >= args.n
        THEN \E p \in B :
               /\ p >= args.hi
               /\ Cardinality({b \in B : args.hi < b /\ b <= p}) = args.n
               /\ res = Ok(p, p)
        ELSE res = Fail(ErrRange)

\* one 3-byte character: `+#1` from offset 0 lands just after it
C9_Witness ==
  fn = "addrNumber" /\ data = <<226, 169, 169>> /\ args.dir = "+" /\ args.charOffset
    /\ args.hi = 0 /\ args.n = 1 /\ res = Ok(3, 3)

\* C10: `-#n` from a position lo on a rune boundary returns (p,p), p the
\* start of the n-th rune before lo, and signals AddressOutOfRange exactly
\* when fewer than n runes lie between offset 0 and lo.
C10_BackwardRunes ==
  (fn = "addrNumber" /\ args.dir = "-" /\ args.charOffset
     /\ args.lo \in RuneStarts(data)) =>
    LET B == RuneStarts(data)
        behind == {b \in B : b < args.lo}
    IN  IF Cardinality(behind) >= args.n
        THEN \E p \in B :
               /\ p <= args.lo
               /\ Cardinality({b \in B : p <= b /\ b < args.lo}) = args.n
               /\ res = Ok(p, p)
        ELSE res = Fail(ErrRange)

\* a direction character
IsDir(c) == c = "+" \/ c = "-"
\* the address with the count 1 put after its k-th character
WithOne(addr, k) == SubSeq(addr, 1, k) \o <<"1">> \o SubSeq(addr, k + 1, Len(addr))
\* range or error of an evaluation
Outcome(r) == IF r.err = "nil" THEN r ELSE Fail(r.err)

\* C11: replacing an adjacent pair d1 d2 of direction characters by d1 1 d2
\* leaves the outcome of the evaluation unchanged, and an address ending in
\* a direction character has the outcome of that address followed by 1.
C11_ImplicitStep ==
  fn = "addrToByteRange" =>
    \A k \in 1..Len(args.addr) :
      (IsDir(args.addr[k]) /\ (k = Len(args.addr) \/ IsDir(args.addr[k + 1])))
        => Outcome(addrToByteRange(WithOne(args.addr, k), args.start, data))
             = Outcome(res)

\* C12: in the file-print view, when lo is the start of highlighted line L
\* and L > 4, mark is the start of line L-4 (4 whole lines of context in
\* data[mark:lo]); when fewer than 4 lines precede lo, mark is 0; in every
\* case 0 <= mark <= lo.
C12_MarkFourLines ==
  fn = "codewalkFileprint" =>
    /\ 0 <= res.mark /\ res.mark <= res.lo
    /\ (1 <= args.lo /\ args.lo <= NumNL(data) + 1) =>
         /\ args.lo > ContextLines
              => /\ res.mark = lineToByte(data, args.lo - ContextLines)
                 /\ NumNL(Slice(data, res.mark, res.lo)) = ContextLines
         /\ args.lo <= ContextLines => res.mark = 0

\* the pattern token /a/
PatternA == <<"/", "a", "/">>

\* C13: an address that ends with a pattern reached in forward direction,
\* `+/p/` or `$/p/` (alone or after a line number Q), resolves to exactly
\* the offsets of the match of p searched from the origin the direction
\* token leaves: the hi of Q (the start position when Q is empty) for `+`,
\* the end of the buffer for `$`; no further step is applied after the match.
C13_PatternConsumesDirection ==
  fn = "addrToByteRange" =>
    \A Q \in {<<>>, <<"0">>, <<"1">>, <<"2">>} :
      LET q == IF Q = <<>> THEN Ok(args.start, args.start)
               ELSE addrToByteRange(Q, args.start, data)
      IN  /\ (args.addr = Q \o <<"+">> \o PatternA /\ q.err = "nil")
               => Outcome(res) = Outcome(addrRegexp(data, q.hi, q.hi, "+", <<"a">>))
          /\ (args.addr = Q \o <<"$">> \o PatternA /\ q.err = "nil")
               => Outcome(res)
                    = Outcome(addrRegexp(data, Len(data), Len(data), "+", <<"a">>))

=============================================================================
